---- MODULE Spec2Model ----
(***************************************************************************)
(* WorkspaceTracker (src/integrations/workspace/WorkspaceTracker.ts) and   *)
(* GitIgnoreProcessor (src/services/glob/git-ignore.ts) as a state machine.*)
(*                                                                         *)
(* One JavaScript event loop runs everything: a watcher callback, a link   *)
(* of the notifyQueue promise chain up to its next await, the resumption   *)
(* of a task after its stat probe, a debounce timer callback and the       *)
(* resumption of initializeFilePaths after listFiles are each one atomic   *)
(* step of the model.                                                      *)
(***************************************************************************)
EXTENDS Naturals, Sequences, FiniteSets

VARIABLES
    filePaths,          \* this.filePaths: the tracked set
    needReInit,         \* this.needReInit
    eventCount,         \* this.eventCount
    timers,             \* number of debounce timeouts set and not yet fired or cleared
    gitignoreCache,     \* GitIgnoreProcessor.gitignoreCache: directory -> merged rules
    gitignoreOnDisk,    \* the .gitignore files of the workspace: directory -> patterns
    notifyQueue,        \* links appended to this.notifyQueue whose task has not started
    active,             \* tasks suspended at `await stat` inside addFilePath
    scans,              \* initializeFilePaths calls suspended at `await listFiles`, by origin
    initCalled,         \* whether the owner has made its initializeFilePaths() call
    posted,             \* number of workspaceUpdated messages posted
    chain,              \* settlement of the last finished link of this.notifyQueue
    nextId,             \* submission number the next link gets
    lastStarted,        \* submission number of the last task that began to run
    lastFinished,       \* submission number of the last link that settled
    lastDone,           \* the watcher-event task that finished last, and its outcome
    emitted,            \* number of events the watcher has delivered
    disposed            \* whether dispose() has released the watcher subscriptions

vars == <<filePaths, needReInit, eventCount, timers, gitignoreCache, gitignoreOnDisk,
          notifyQueue, active, scans, initCalled, posted, chain, nextId,
          lastStarted, lastFinished, lastDone, emitted, disposed>>

(***************************************************************************)
(* Bounds of the model.                                                    *)
(***************************************************************************)
MaxEvents == 2
MaxQueue == 2
BurstSize == 102

(***************************************************************************)
(* Program constants.                                                      *)
(***************************************************************************)
EVENT_FLOOD_SZ == 100

(***************************************************************************)
(* Paths.  A path is its directory, its base name and the number of        *)
(* trailing separators it is written with.                                 *)
(***************************************************************************)
cwd == "/proj"
SubDir == "/proj/sub"
Dirs == {cwd, SubDir}
GitignoreName == ".gitignore"
DotsName == "..."

Path(d, b, s) == [dir |-> d, base |-> b, slash |-> s]
pa == Path(cwd, "a", 0)
pg == Path(cwd, GitignoreName, 0)
psg == Path(SubDir, GitignoreName, 0)
pdots == Path(cwd, DotsName, 0)

\* uri.fsPath of a watcher event: no trailing separator
WatchedPaths == {pa, pg, psg, pdots}
EventKinds == {"create", "delete", "change"}
ProbeOutcomes == {"file", "dir", "fail"}

\* results listFiles may resolve with: directories carry a trailing separator
Listings == { {}, {pa}, {Path(cwd, "a", 1)}, {pa, pg} }

\* contents a .gitignore may be written with, and the directories where the
\* model writes one
RuleSets == { {"a", GitignoreName} }
EditedDirs == {cwd}

\* getDirsToIgnore(): the configured exclusion globs, each "<dir>/**"
configGlobsToIgnore == {SubDir}

EndsWithSlash(p) == p.slash > 0
AddSlash(p) == [p EXCEPT !.slash = @ + 1]
basename(p) == p.base
dirname(p) == p.dir
Parent(d) == IF d = SubDir THEN cwd ELSE "/"

normalizeFilePath(filePath) ==
    LET resolvedPath == [filePath EXCEPT !.slash = 0]
    IN  IF EndsWithSlash(filePath) THEN AddSlash(resolvedPath) ELSE resolvedPath

(***************************************************************************)
(* GitIgnoreProcessor                                                      *)
(***************************************************************************)
EmptyCache == [d \in {} |-> {}]

clearCache(cache) == EmptyCache

\* the walk from dir up to the workspace root, merging every .gitignore found
RECURSIVE CollectRules(_, _)
CollectRules(disk, currentDir) ==
    IF currentDir \notin Dirs
    THEN {}
    ELSE (IF currentDir \in DOMAIN disk THEN disk[currentDir] ELSE {})
         \cup (IF currentDir = cwd THEN {} ELSE CollectRules(disk, Parent(currentDir)))

\* a lookup that rebuilds the rules on every call and overwrites the entry
GetRulesUncached(cache, disk, dir) ==
    LET gitignoreInstance == CollectRules(disk, dir)
    IN  [rules |-> gitignoreInstance,
         cache |-> [d \in (DOMAIN cache) \cup {dir} |->
                       IF d = dir THEN gitignoreInstance ELSE cache[d]]]

getGitignoreRulesForPath(cache, disk, dir) ==
    IF dir \in DOMAIN cache
    THEN [rules |-> cache[dir], cache |-> cache]
    ELSE LET gitignoreInstance == CollectRules(disk, dir)
         IN  [rules |-> gitignoreInstance,
              cache |-> [d \in (DOMAIN cache) \cup {dir} |->
                            IF d = dir THEN gitignoreInstance ELSE cache[d]]]

\* ignore().ignores(relative path): the library rejects a path made of dots only
Ignores(rules, rel) ==
    IF rel = DotsName THEN "throw" ELSE IF rel \in rules THEN "yes" ELSE "no"

\* micromatch.isMatch(filePath, globs, {dot: true})
IsMatch(filePath, globs) == dirname(filePath) \in globs

shouldIgnoreFile(cache, disk, filePath, exclusionGlobs) ==
    LET got == getGitignoreRulesForPath(cache, disk, dirname(filePath))
        hit == Ignores(got.rules, basename(filePath))
    IN  [res   |-> IF hit # "no" THEN hit
                   ELSE IF IsMatch(filePath, exclusionGlobs) THEN "yes" ELSE "no",
         cache |-> got.cache]

(***************************************************************************)
(* WorkspaceTracker: the synchronous helpers                               *)
(***************************************************************************)
shouldIgnoreGlob(cache, disk, filePath, exclusionGlobs) ==
    LET first == shouldIgnoreFile(cache, disk, filePath, {})
    IN  [res   |-> IF first.res # "no" THEN first.res
                   ELSE IF IsMatch(filePath, exclusionGlobs) THEN "yes" ELSE "no",
         cache |-> first.cache]

\* eventCount++ > EVENT_FLOOD_SZ compares the count before the increment
FloodDetected(count) == count > EVENT_FLOOD_SZ

\* a counter that stops counting once a re-scan is already due
IncrementUnlessFlagged(count, flag) ==
    [eventCount |-> IF flag THEN count ELSE count + 1,
     needReInit |-> flag \/ FloodDetected(count)]

\* incrementEventAndDetectFlood
incrementEventAndDetectFlood(count, flag) ==
    [eventCount |-> count + 1, needReInit |-> flag \/ FloodDetected(count)]

\* removeFilePath that stops at the plain form
removeFilePathPlainOnly(paths, flag, cache, filePath) ==
    LET normalizedPath == normalizeFilePath(filePath)
        isFile == normalizedPath \in paths
        isGitignore == basename(normalizedPath) = GitignoreName
    IN  [filePaths  |-> paths \ {normalizedPath},
         needReInit |-> flag \/ ~isFile \/ isGitignore,
         cache      |-> IF isGitignore THEN clearCache(cache) ELSE cache,
         result     |-> isFile]

\* removeFilePath
removeFilePath(paths, flag, cache, filePath) ==
    LET normalizedPath == normalizeFilePath(filePath)
        isFile == normalizedPath \in paths
        isGitignore == basename(normalizedPath) = GitignoreName
    IN  [filePaths  |-> IF isFile THEN paths \ {normalizedPath}
                        ELSE paths \ {AddSlash(normalizedPath)},
         needReInit |-> flag \/ ~isFile \/ isGitignore,
         cache      |-> IF isGitignore THEN clearCache(cache) ELSE cache,
         result     |-> isFile \/ AddSlash(normalizedPath) \in paths]

\* a directory taken for a path whose children the watcher reports one by one
DirectoryTrusted(isDirectory) == FALSE

\* addFilePath from the point where stat has settled with `outcome`
DirectoryNeedsReInit(isDirectory) == isDirectory

\* addFilePath that takes a Created event for an already tracked path as the
\* re-creation of that path as a directory
addFilePathTrackedIsDir(paths, flag, cache, filePath, outcome) ==
    LET normalizedPath == normalizeFilePath(filePath)
        isDirectory == outcome = "dir" \/ normalizedPath \in paths
        pathWithSlash == IF isDirectory /\ ~EndsWithSlash(normalizedPath)
                         THEN AddSlash(normalizedPath) ELSE normalizedPath
        isGitignore == basename(normalizedPath) = GitignoreName
    IN  IF outcome = "fail"
        THEN [filePaths |-> paths \cup {normalizedPath}, needReInit |-> flag, cache |-> cache]
        ELSE [filePaths  |-> paths \cup {pathWithSlash},
              needReInit |-> flag \/ isDirectory \/ isGitignore,
              cache      |-> IF isGitignore THEN clearCache(cache) ELSE cache]

addFilePath(paths, flag, cache, filePath, outcome) ==
    LET normalizedPath == normalizeFilePath(filePath)
        isDirectory == outcome = "dir"
        pathWithSlash == IF isDirectory /\ ~EndsWithSlash(normalizedPath)
                         THEN AddSlash(normalizedPath) ELSE normalizedPath
        isGitignore == basename(normalizedPath) = GitignoreName
    IN  IF outcome = "fail"
        THEN [filePaths |-> paths \cup {normalizedPath}, needReInit |-> flag, cache |-> cache]
        ELSE [filePaths  |-> paths \cup {pathWithSlash},
              needReInit |-> flag \/ DirectoryNeedsReInit(isDirectory) \/ isGitignore,
              cache      |-> IF isGitignore THEN clearCache(cache) ELSE cache]

\* setTimeout without the clearTimeout of the pending handle
TriggerWithoutClear(pending) == pending + 1

\* triggerWorkspaceDidUpdate: clearTimeout of the one remembered handle, then setTimeout
triggerWorkspaceDidUpdate(pending) == (IF pending > 0 THEN pending - 1 ELSE 0) + 1

\* a chain without the catch handler: a rejection stays on the chain
CatchRethrows(outcome) == outcome

\* addEventToNotifyQueue: .catch((err) => {}) settles every link as fulfilled
Catch(outcome) == "fulfilled"

\* tasks that start addFilePath without awaiting it
AwaitsNothing(kind) == FALSE

\* whether the task's body awaits the asynchronous operation it starts: the
\* watcher tasks await addFilePath, the re-scan task calls initializeFilePaths bare
Awaits(kind) == kind \in {"create", "change"}

ChainBusy == \E t \in active : Awaits(t.kind)

\* the record of a finished watcher task: what it was, how it ended, and how the
\* task before it ended when that was a create of the same path
NoDone == [kind |-> "none", path |-> Path(cwd, "", 0), res |-> "none", prev |-> "none"]
Done(t, res, before) ==
    [kind |-> t.kind, path |-> t.path, res |-> res,
     prev |-> IF before.kind = "create" /\ before.path = t.path THEN before.res ELSE "none"]

(***************************************************************************)
(* Initial state: the tracker as constructed                               *)
(***************************************************************************)
Init ==
    /\ filePaths = {}
    /\ needReInit = FALSE
    /\ eventCount = 0
    /\ timers = 0
    /\ gitignoreCache = EmptyCache
    /\ gitignoreOnDisk = EmptyCache
    /\ notifyQueue = <<>>
    /\ active = {}
    /\ scans = [o \in {"timer", "init"} |-> 0]
    /\ initCalled = FALSE
    /\ posted = 0
    /\ chain = "fulfilled"
    /\ nextId = 1
    /\ lastStarted = 0
    /\ lastFinished = 0
    /\ lastDone = NoDone
    /\ emitted = 0
    /\ disposed = FALSE

(***************************************************************************)
(* addEventToNotifyQueue and the watcher callbacks                         *)
(***************************************************************************)
NoPath == Path(cwd, "", 0)
Link(k, p) == [id |-> nextId, kind |-> k, path |-> p]

\* this.notifyQueue = this.notifyQueue.then(() => task()).catch(...)
addEventToNotifyQueue(k, p) ==
    /\ notifyQueue' = Append(notifyQueue, Link(k, p))
    /\ nextId' = nextId + 1

\* onDidCreate / onDidDelete / onDidChange: the callback only submits the task
Emit(k, p) ==
    /\ addEventToNotifyQueue(k, p)
    /\ emitted' = emitted + 1
    /\ UNCHANGED <<filePaths, needReInit, eventCount, timers, gitignoreCache,
                   gitignoreOnDisk, active, scans, initCalled, posted, chain,
                   lastStarted, lastFinished, lastDone, disposed>>

WatcherEvent ==
    /\ ~disposed
    /\ emitted < MaxEvents
    /\ Len(notifyQueue) < MaxQueue
    /\ \E k \in EventKinds, p \in WatchedPaths : Emit(k, p)

\* the link settles: its catch handler has run
Settle(t, outcome) ==
    /\ chain' = Catch(outcome)
    /\ lastFinished' = t.id

Finish(t, res, outcome) ==
    /\ Settle(t, outcome)
    /\ lastDone' = Done(t, res, lastDone)

\* a link whose predecessor is rejected: then() skips the task
Skipped(t) ==
    /\ Settle(t, "rejected")
    /\ UNCHANGED <<filePaths, needReInit, eventCount, timers, gitignoreCache,
                   gitignoreOnDisk, active, scans, initCalled, posted, nextId,
                   lastStarted, lastDone,
                       emitted, disposed>>

\* the head of every watcher task: flood detection, then the ignore check.
\* A task that is ignored, or whose check throws, ends here.
Filtered(t, inc, ig) ==
    /\ needReInit' = inc.needReInit
    /\ gitignoreCache' = ig.cache
    /\ Finish(t, IF ig.res = "throw" THEN "threw" ELSE "ignored",
                 IF ig.res = "throw" THEN "rejected" ELSE "fulfilled")
    /\ UNCHANGED <<filePaths, timers, active>>

(***************************************************************************)
(* The tasks of the queue, each up to its first await                      *)
(***************************************************************************)
RunCreate ==
    /\ notifyQueue # <<>>
    /\ ~ChainBusy
    /\ LET t == Head(notifyQueue)
           inc == incrementEventAndDetectFlood(eventCount, needReInit)
           ig == shouldIgnoreGlob(gitignoreCache, gitignoreOnDisk, t.path, configGlobsToIgnore)
       IN  /\ t.kind = "create"
           /\ notifyQueue' = Tail(notifyQueue)
           /\ IF chain = "rejected" THEN Skipped(t)
              ELSE /\ lastStarted' = t.id
                   /\ eventCount' = inc.eventCount
                   /\ UNCHANGED <<gitignoreOnDisk, scans, initCalled, posted, nextId,
                       emitted, disposed>>
                   /\ IF ig.res # "no" THEN Filtered(t, inc, ig)
                      ELSE /\ needReInit' = inc.needReInit
                           /\ gitignoreCache' = ig.cache
                           /\ active' = active \cup {t}
                           /\ UNCHANGED filePaths
                           /\ IF Awaits(t.kind)
                              THEN UNCHANGED <<timers, chain, lastFinished, lastDone>>
                              ELSE /\ timers' = triggerWorkspaceDidUpdate(timers)
                                   /\ Finish(t, "unawaited", "fulfilled")

RunDelete ==
    /\ notifyQueue # <<>>
    /\ ~ChainBusy
    /\ LET t == Head(notifyQueue)
           inc == incrementEventAndDetectFlood(eventCount, needReInit)
           ig == shouldIgnoreGlob(gitignoreCache, gitignoreOnDisk, t.path, configGlobsToIgnore)
           rm == removeFilePath(filePaths, inc.needReInit, ig.cache, t.path)
       IN  /\ t.kind = "delete"
           /\ notifyQueue' = Tail(notifyQueue)
           /\ IF chain = "rejected" THEN Skipped(t)
              ELSE /\ lastStarted' = t.id
                   /\ eventCount' = inc.eventCount
                   /\ UNCHANGED <<gitignoreOnDisk, scans, initCalled, posted, nextId,
                       emitted, disposed>>
                   /\ IF ig.res # "no" THEN Filtered(t, inc, ig)
                      ELSE /\ filePaths' = rm.filePaths
                           /\ needReInit' = rm.needReInit
                           /\ gitignoreCache' = rm.cache
                           /\ timers' = IF rm.result THEN triggerWorkspaceDidUpdate(timers)
                                        ELSE timers
                           /\ Finish(t, IF rm.result THEN "removed" ELSE "absent", "fulfilled")
                           /\ UNCHANGED active

RunChange ==
    /\ notifyQueue # <<>>
    /\ ~ChainBusy
    /\ LET t == Head(notifyQueue)
           inc == incrementEventAndDetectFlood(eventCount, needReInit)
           ig == shouldIgnoreGlob(gitignoreCache, gitignoreOnDisk, t.path, configGlobsToIgnore)
           rm == removeFilePath(filePaths, inc.needReInit, ig.cache, t.path)
       IN  /\ t.kind = "change"
           /\ notifyQueue' = Tail(notifyQueue)
           /\ IF chain = "rejected" THEN Skipped(t)
              ELSE /\ lastStarted' = t.id
                   /\ eventCount' = inc.eventCount
                   /\ UNCHANGED <<gitignoreOnDisk, scans, initCalled, posted, nextId,
                       emitted, disposed>>
                   /\ IF ig.res # "no" THEN Filtered(t, inc, ig)
                      ELSE /\ filePaths' = rm.filePaths
                           /\ needReInit' = rm.needReInit
                           /\ gitignoreCache' = rm.cache
                           /\ active' = active \cup {t}
                           /\ IF Awaits(t.kind)
                              THEN UNCHANGED <<timers, chain, lastFinished, lastDone>>
                              ELSE /\ timers' = triggerWorkspaceDidUpdate(timers)
                                   /\ Finish(t, "unawaited", "fulfilled")

\* the task the timer queues: async () => { this.initializeFilePaths() }.
\* initializeFilePaths runs to its await and the task returns without waiting.
RunReinit ==
    /\ notifyQueue # <<>>
    /\ ~ChainBusy
    /\ LET t == Head(notifyQueue)
       IN  /\ t.kind = "reinit"
           /\ notifyQueue' = Tail(notifyQueue)
           /\ IF chain = "rejected" THEN Skipped(t)
              ELSE /\ lastStarted' = t.id
                   /\ filePaths' = {}
                   /\ scans' = [scans EXCEPT !["timer"] = @ + 1]
                   /\ Settle(t, "fulfilled")
                   /\ UNCHANGED <<needReInit, eventCount, timers, gitignoreCache,
                                  gitignoreOnDisk, active, initCalled, posted, nextId,
                                  lastDone,
                       emitted, disposed>>

\* stat settles: addFilePath finishes, and the awaiting task with it
ProbeSettles(t, outcome) ==
    /\ t \in active
    /\ LET add == addFilePath(filePaths, needReInit, gitignoreCache, t.path, outcome)
       IN  /\ filePaths' = add.filePaths
           /\ needReInit' = add.needReInit
           /\ gitignoreCache' = add.cache
           /\ active' = active \ {t}
           /\ IF Awaits(t.kind)
              THEN /\ timers' = triggerWorkspaceDidUpdate(timers)
                   /\ Finish(t, outcome, "fulfilled")
              ELSE UNCHANGED <<timers, chain, lastFinished, lastDone>>
           /\ UNCHANGED <<eventCount, gitignoreOnDisk, notifyQueue, scans, initCalled,
                          posted, nextId, lastStarted,
                       emitted, disposed>>

ProbeReturn == \E t \in active, outcome \in ProbeOutcomes : ProbeSettles(t, outcome)

(***************************************************************************)
(* The debounce timer                                                      *)
(***************************************************************************)
\* workspaceDidUpdate: one workspaceUpdated message
workspaceDidUpdate(n) == n + 1

\* a timer callback that posts the snapshot without looking at the flag
FireAlwaysSnapshot(flag) == "snapshot"

\* the timer callback's choice between the re-scan and the direct snapshot
FireBranch(flag) == IF flag THEN "rescan" ELSE "snapshot"

TimerFire ==
    /\ timers > 0
    /\ timers' = timers - 1
    /\ IF FireBranch(needReInit) = "rescan"
       THEN /\ addEventToNotifyQueue("reinit", NoPath)
            /\ UNCHANGED posted
       ELSE /\ posted' = workspaceDidUpdate(posted)
            /\ UNCHANGED <<notifyQueue, nextId>>
    /\ eventCount' = 0
    /\ UNCHANGED <<filePaths, needReInit, gitignoreCache, gitignoreOnDisk, active, scans,
                   initCalled, chain, lastStarted, lastFinished, lastDone,
                       emitted, disposed>>

(***************************************************************************)
(* initializeFilePaths                                                     *)
(***************************************************************************)
\* the owner's call: filePaths.clear(), then await listFiles
Initialize ==
    /\ ~initCalled
    /\ initCalled' = TRUE
    /\ filePaths' = {}
    /\ scans' = [scans EXCEPT !["init"] = @ + 1]
    /\ UNCHANGED <<needReInit, eventCount, timers, gitignoreCache, gitignoreOnDisk,
                   notifyQueue, active, posted, chain, nextId, lastStarted,
                   lastFinished, lastDone,
                       emitted, disposed>>

\* listFiles resolves: the rest of initializeFilePaths runs
ListingSettles(o, files) ==
    /\ scans[o] > 0
    /\ scans' = [scans EXCEPT ![o] = @ - 1]
    /\ filePaths' = {normalizeFilePath(file) : file \in files}
    /\ needReInit' = FALSE
    /\ posted' = workspaceDidUpdate(posted)
    /\ UNCHANGED <<eventCount, timers, gitignoreCache, gitignoreOnDisk, notifyQueue,
                   active, initCalled, chain, nextId, lastStarted, lastFinished, lastDone,
                       emitted, disposed>>

ScanReturn == \E o \in DOMAIN scans, files \in Listings : ListingSettles(o, files)

\* a re-scan that clears the flag in a finally clause, whether or not it listed
ScanFailClearsFlag ==
    \E o \in DOMAIN scans :
        /\ scans[o] > 0
        /\ scans' = [scans EXCEPT ![o] = @ - 1]
        /\ needReInit' = FALSE
        /\ UNCHANGED <<filePaths, eventCount, timers, gitignoreCache,
                       gitignoreOnDisk, notifyQueue, active, initCalled, posted, chain,
                       nextId, lastStarted, lastFinished, lastDone,
                       emitted, disposed>>

\* listFiles rejects: initializeFilePaths ends at its await
ScanFail ==
    \E o \in DOMAIN scans :
        /\ scans[o] > 0
        /\ scans' = [scans EXCEPT ![o] = @ - 1]
        /\ UNCHANGED <<filePaths, needReInit, eventCount, timers, gitignoreCache,
                       gitignoreOnDisk, notifyQueue, active, initCalled, posted, chain,
                       nextId, lastStarted, lastFinished, lastDone,
                       emitted, disposed>>

(***************************************************************************)
(* The file system: .gitignore files are written and removed               *)
(***************************************************************************)
WriteGitignore ==
    \E d \in EditedDirs, r \in RuleSets :
        /\ ~(d \in DOMAIN gitignoreOnDisk /\ gitignoreOnDisk[d] = r)
        /\ gitignoreOnDisk' = [x \in (DOMAIN gitignoreOnDisk) \cup {d} |->
                                  IF x = d THEN r ELSE gitignoreOnDisk[x]]
        /\ UNCHANGED <<filePaths, needReInit, eventCount, timers, gitignoreCache,
                       notifyQueue, active, scans, initCalled, posted, chain, nextId,
                       lastStarted, lastFinished, lastDone,
                       emitted, disposed>>

UnlinkGitignore ==
    \E d \in EditedDirs :
        /\ d \in DOMAIN gitignoreOnDisk
        /\ gitignoreOnDisk' = [x \in (DOMAIN gitignoreOnDisk) \ {d} |-> gitignoreOnDisk[x]]
        /\ UNCHANGED <<filePaths, needReInit, eventCount, timers, gitignoreCache,
                       notifyQueue, active, scans, initCalled, posted, chain, nextId,
                       lastStarted, lastFinished, lastDone,
                       emitted, disposed>>

(***************************************************************************)
(* dispose                                                                 *)
(***************************************************************************)
\* dispose() that also drops the links still waiting in the queue
DisposeAbortsQueue ==
    /\ ~disposed
    /\ disposed' = TRUE
    /\ notifyQueue' = <<>>
    /\ UNCHANGED <<filePaths, needReInit, eventCount, timers, gitignoreCache,
                   gitignoreOnDisk, active, scans, initCalled, posted, chain,
                   nextId, lastStarted, lastFinished, lastDone, emitted>>

\* this.disposables.forEach((d) => d.dispose()): the watcher stops delivering
Dispose ==
    /\ ~disposed
    /\ disposed' = TRUE
    /\ UNCHANGED <<filePaths, needReInit, eventCount, timers, gitignoreCache,
                   gitignoreOnDisk, notifyQueue, active, scans, initCalled, posted,
                   chain, nextId, lastStarted, lastFinished, lastDone, emitted>>

Next ==
    \/ WatcherEvent
    \/ RunCreate
    \/ RunDelete
    \/ RunChange
    \/ RunReinit
    \/ ProbeReturn
    \/ TimerFire
    \/ Initialize
    \/ ScanReturn
    \/ ScanFail
    \/ WriteGitignore
    \/ UnlinkGitignore

Spec == Init /\ [][Next]_vars

(***************************************************************************)
(* The tracker up to and after dispose(): the watcher events, the queue,   *)
(* the timer and the re-scans, over a workspace whose .gitignore files do  *)
(* not change.                                                             *)
(***************************************************************************)
NextDisposable ==
    \/ WatcherEvent
    \/ RunCreate
    \/ RunDelete
    \/ RunChange
    \/ RunReinit
    \/ ProbeReturn
    \/ TimerFire
    \/ ScanReturn
    \/ ScanFail
    \/ Dispose

\* The reactions of the promise chain are jobs the event loop runs as soon as
\* the link before them has settled, and every stat call returns.
FairSpec ==
    /\ Init /\ [][NextDisposable]_vars
    /\ WF_vars(RunCreate)
    /\ WF_vars(RunDelete)
    /\ WF_vars(RunChange)
    /\ WF_vars(RunReinit)
    /\ WF_vars(ProbeReturn)

(***************************************************************************)
(* A burst of events inside one debounce window: BurstSize create events,  *)
(* for a tracked and for an excluded path, and no timer fire before the    *)
(* event counter has passed the flood size.                                *)
(***************************************************************************)
BurstPaths == {pa, psg}

BurstEvent ==
    /\ ~disposed
    /\ emitted < BurstSize
    /\ notifyQueue = <<>>
    /\ \E p \in BurstPaths : Emit("create", p)

BurstTimerFire ==
    /\ eventCount > EVENT_FLOOD_SZ
    /\ TimerFire

NextFlood ==
    \/ BurstEvent
    \/ RunCreate
    \/ ProbeReturn
    \/ BurstTimerFire
    \/ RunReinit
    \/ ScanReturn
    \/ ScanFail

FloodSpec == Init /\ [][NextFlood]_vars

(***************************************************************************)
(* Properties                                                              *)
(***************************************************************************)
\* the submission numbers waiting in the queue follow the last started one
QueueInOrder == \A i \in 1..Len(notifyQueue) : notifyQueue[i].id = lastStarted + i

\* the watcher task that takes the step: the head of the queue when it starts,
\* a suspended task when its probe settles
Starts(t) == notifyQueue # <<>> /\ t = Head(notifyQueue) /\ lastStarted' = t.id
Candidates == active \cup (IF notifyQueue = <<>> THEN {} ELSE {Head(notifyQueue)})
FinishesNow(t) ==
    /\ lastFinished' = t.id
    /\ lastFinished # t.id
    /\ \/ t \in active /\ t \notin active'
       \/ Starts(t)

\* C1: watcher tasks are strictly serialized: at most one is in progress, it is
\* the last one started, every task submitted before it has finished, and the
\* tasks still waiting are the following submissions in order.
C1_Serialized ==
    /\ Cardinality(active) <= 1
    /\ \A t \in active : t.id = lastStarted /\ lastFinished = t.id - 1
    /\ (active = {} => lastFinished = lastStarted)
    /\ QueueInOrder

C1_Witness ==
    /\ active # {}
    /\ notifyQueue # <<>>
    /\ lastFinished >= 1

\* C2: when the Deleted(a) task that follows the Created(a) task finishes, for
\* a path that neither task ignored, the set holds neither a nor a with the
\* directory suffix, whatever the probe of the Created task did.
C2_CreateThenDeleteLeavesNeither ==
    [][\A t \in Candidates :
          (Starts(t) /\ t.kind = "delete" /\ lastDone.kind = "create"
              /\ lastDone.path = t.path /\ lastDone.res \in ProbeOutcomes
              /\ lastDone'.res \in {"removed", "absent"})
          => /\ normalizeFilePath(t.path) \notin filePaths'
             /\ AddSlash(normalizeFilePath(t.path)) \notin filePaths']_vars

\* What the Deleted(a) task that follows Created(a) does guarantee: the Created
\* task is no longer in progress when it runs, and when it finishes the plain
\* form of a is not tracked; the directory form is not tracked either, unless
\* both forms were tracked when the Deleted task started.
DeleteAfterCreateRemovesPlain ==
    [][\A t \in Candidates :
          (Starts(t) /\ t.kind = "delete" /\ lastDone.kind = "create"
              /\ lastDone.path = t.path /\ lastDone.res \in ProbeOutcomes
              /\ lastDone'.res \in {"removed", "absent"})
          => LET n == normalizeFilePath(t.path)
             IN  /\ \A c \in active : c.path # t.path
                 /\ n \notin filePaths'
                 /\ (AddSlash(n) \in filePaths'
                       => n \in filePaths /\ AddSlash(n) \in filePaths)]_vars

DeleteAfterCreateWitness ==
    /\ lastDone.kind = "delete"
    /\ lastDone.path = pa
    /\ lastDone.res = "removed"
    /\ lastDone.prev = "dir"
    /\ filePaths = {}

\* C3: while a re-scan queued by the timer is between clearing the set and
\* repopulating it, no watcher task is in progress.
C3_RescanExcludesEventTasks == scans["timer"] > 0 => active = {}

\* C4: when 101 events have been handled since the counter was last zero,
\* with no timer fire in between, the re-scan flag is set.
C4_FloodAt101 == eventCount = EVENT_FLOOD_SZ + 1 => needReInit

\* C5: the re-scan flag is never left set with nothing pending that leads to a
\* re-scan: no timer, no queued or running task, no listing in flight.
C5_FlagNeverStranded ==
    needReInit =>
        \/ timers > 0
        \/ notifyQueue # <<>>
        \/ active # {}
        \/ \E o \in DOMAIN scans : scans[o] > 0

\* C6: a failed task leaves the chain fulfilled, so no later link is skipped:
\* every link that has settled had its task started, and the waiting tasks are
\* the following submissions in order.
C6_FailureIsolated ==
    /\ chain = "fulfilled"
    /\ lastFinished <= lastStarted
    /\ QueueInOrder

C6_Witness ==
    /\ lastDone.res = "threw"
    /\ \E t \in active : t.id = lastFinished + 1

\* C7: handling a Deleted event for a path named .gitignore leaves the rule
\* cache empty and the re-scan flag set.
C7_DeleteGitignoreInvalidates ==
    [][\A t \in Candidates :
          (Starts(t) /\ t.kind = "delete" /\ basename(t.path) = GitignoreName)
          => gitignoreCache' = EmptyCache /\ needReInit']_vars

\* C8: when the task of a Created or Changed event for a path named .gitignore
\* finishes, the rule cache is empty and the re-scan flag is set, whatever the
\* probe did.
C8_CreateChangeGitignoreInvalidates ==
    [][\A t \in Candidates :
          (FinishesNow(t) /\ t.kind \in {"create", "change"}
              /\ basename(t.path) = GitignoreName)
          => gitignoreCache' = EmptyCache /\ needReInit']_vars

\* C9: when the probe of addFilePath reports a directory, the re-scan flag is
\* set when the task finishes, whatever the event counter, and the path is
\* tracked with the directory suffix.
C9_DirectorySetsFlag ==
    [][\A t \in active :
          ProbeSettles(t, "dir")
          => /\ needReInit'
             /\ AddSlash(normalizeFilePath(t.path)) \in filePaths']_vars

C9_Witness ==
    /\ lastDone.res = "dir"
    /\ lastDone.path = pa
    /\ eventCount = 0
    /\ needReInit
    /\ AddSlash(pa) \in filePaths

\* C10: a timer fire with the flag set posts nothing and appends the re-scan
\* task to the queue; with the flag clear it posts exactly one snapshot and
\* queues nothing.
C10_TimerFireBranches ==
    [][timers' < timers =>
          IF needReInit
          THEN /\ posted' = posted
               /\ notifyQueue' = Append(notifyQueue, Link("reinit", NoPath))
          ELSE /\ posted' = posted + 1
               /\ notifyQueue' = notifyQueue]_vars

C10_Witness ==
    /\ \E i \in 1..Len(notifyQueue) : notifyQueue[i].kind = "reinit"
    /\ posted > 0
    /\ eventCount = 0

\* C11: at most one debounce timeout is pending at any time, however many
\* triggering events were handled since the last fire, so they lead to one fire.
C11_SingleTimer == timers <= 1

C11_Witness ==
    /\ timers = 1
    /\ eventCount = 2
    /\ lastDone.res \in ProbeOutcomes
    /\ lastDone.prev \in ProbeOutcomes

\* C12: a cached ruleset stays as computed while its entry exists, whatever
\* happens to the .gitignore files, and decides the ignore check of a task for
\* a path of that directory; an entry that appears holds the rules on disk at
\* that moment; when an entry disappears, every entry does.
C12_CacheCoherence ==
    [][/\ \A d \in (DOMAIN gitignoreCache) \cap (DOMAIN gitignoreCache') :
              gitignoreCache'[d] = gitignoreCache[d]
       /\ \A d \in (DOMAIN gitignoreCache') \ (DOMAIN gitignoreCache) :
              gitignoreCache'[d] = CollectRules(gitignoreOnDisk, d)
       /\ ((DOMAIN gitignoreCache) \ (DOMAIN gitignoreCache') # {}
              => gitignoreCache' = EmptyCache)
       /\ \A t \in Candidates :
              (Starts(t) /\ t.kind \in EventKinds
                  /\ dirname(t.path) \in DOMAIN gitignoreCache
                  /\ basename(t.path) # DotsName)
              => ((lastFinished' = t.id /\ lastDone'.res = "ignored")
                    <=> (basename(t.path) \in gitignoreCache[dirname(t.path)]
                           \/ IsMatch(t.path, configGlobsToIgnore)))]_vars

\* a task for /proj/a was ignored on cached rules that are no longer on disk
C12_Witness ==
    /\ cwd \in DOMAIN gitignoreCache
    /\ gitignoreCache[cwd] # CollectRules(gitignoreOnDisk, cwd)
    /\ SubDir \in DOMAIN gitignoreCache
    /\ lastDone.res = "ignored"
    /\ lastDone.path = pa
    /\ lastStarted >= 2

\* C13: every link submitted to the queue eventually starts to run, given that
\* every stat call returns: whenever links wait, a state follows in which none
\* waits and the link submitted last has started, and a link leaves the queue
\* only by starting. dispose() changes nothing but the subscriptions, so this
\* holds as well for the links waiting when it is called.
C13_EveryTaskRuns ==
    /\ (notifyQueue # <<>>) ~> (notifyQueue = <<>> /\ lastStarted = nextId - 1)
    /\ [][notifyQueue # <<>> /\ notifyQueue' # notifyQueue /\ nextId' = nextId
            => (notifyQueue' = Tail(notifyQueue)
                   /\ lastStarted' = Head(notifyQueue).id)]_vars
    /\ [][disposed' # disposed =>
            UNCHANGED <<filePaths, needReInit, eventCount, timers, gitignoreCache,
                        gitignoreOnDisk, notifyQueue, active, scans, initCalled,
                        posted, chain, nextId, lastStarted, lastFinished, lastDone,
                        emitted>>]_vars

\* after dispose() no event is delivered, so a watcher task still queued was
\* queued when dispose() was called; it waits behind a task suspended at stat
C13_Witness ==
    /\ disposed
    /\ notifyQueue # <<>>
    /\ Head(notifyQueue).kind \in EventKinds
    /\ active # {}

\* the tracked set when addFilePath runs for filePath once more, right after the
\* step in which a task has run it
AddAgain(filePath, o2) ==
    addFilePath(filePaths', needReInit', gitignoreCache', filePath, o2).filePaths

\* the task t runs addFilePath to its end in this step, stat having settled with o1
AddRuns(t, o1) ==
    /\ t \in active /\ t \notin active'
    /\ lastFinished' = t.id
    /\ lastDone'.res = o1

TaskRuns == lastStarted' # lastStarted \/ \E t \in active : t \notin active'

\* the owner's own initializeFilePaths() call and its continuation
OwnerScanRuns == initCalled' # initCalled \/ scans'["init"] # scans["init"]

\* C15: the tracked set, the event counter and the flag change only in steps in
\* which a task of the queue runs: not in a watcher callback, not in the timer
\* callback, not in re-scan code that continues after its task has ended.
C15_MutationsInsideTasks ==
    [][(filePaths' # filePaths \/ eventCount' # eventCount \/ needReInit' # needReInit)
           /\ ~OwnerScanRuns
       => TaskRuns]_vars

\* the part of C15 about the tracked set and the flag alone
C15_SetAndFlagInsideTasks ==
    [][(filePaths' # filePaths \/ needReInit' # needReInit) /\ ~OwnerScanRuns
       => TaskRuns]_vars

\* C16: needReInit goes from true to false only in the step in which a listing
\* arrives: the tracked set is replaced by the normalized listing and a snapshot
\* is posted in that step. No event task and no timer fire clears it, and a
\* listing that fails leaves the flag as it is.
C16_ClearedOnlyByRescan ==
    [][/\ (needReInit /\ ~needReInit')
          => (/\ \E o \in DOMAIN scans : scans'[o] = scans[o] - 1
              /\ \E files \in Listings :
                     filePaths' = {normalizeFilePath(file) : file \in files}
              /\ posted' = posted + 1
              /\ ~TaskRuns
              /\ timers' = timers)
       /\ ((\E o \in DOMAIN scans : scans'[o] < scans[o]) /\ posted' = posted)
          => needReInit' = needReInit]_vars

\* a directory was reported, so the flag was set, and a listing has cleared it
C16_Witness ==
    /\ lastDone.res = "dir"
    /\ ~needReInit
    /\ posted > 0
    /\ scans["timer"] = 0 /\ scans["init"] = 0

\* C17: the event counter goes up by one in every step in which a watcher task
\* starts, whether the task is then ignored, throws or goes on; it is zero after
\* every timer fire, on the re-scan branch and on the snapshot branch; no other
\* step changes it. So it counts the events handled since the last fire.
C17_CounterCountsEvents ==
    [][IF \E t \in Candidates : Starts(t) /\ t.kind \in EventKinds
       THEN eventCount' = eventCount + 1
       ELSE IF timers' < timers
            THEN eventCount' = 0
                 /\ (FireBranch(needReInit) = "rescan" <=> nextId' = nextId + 1)
                 /\ (FireBranch(needReInit) = "snapshot" <=> posted' = posted + 1)
            ELSE eventCount' = eventCount]_vars

\* two events were handled and the timeout fired between them: the counter was
\* reset by the fire and has counted the second event, an ignored one
C17_Witness ==
    /\ eventCount = 1
    /\ lastStarted = 2
    /\ lastFinished = 2
    /\ lastDone.res = "ignored"
    /\ timers = 0
    /\ nextId = 3

\* C18: in the step of a Deleted task that passes the ignore check: when the
\* plain normalized entry is tracked it is removed, the flag stays as it is
\* unless the base name is .gitignore, and a notification is scheduled; when it
\* is not, the flag is set, the directory-suffixed entry is removed if tracked,
\* and a notification is scheduled exactly when that entry was tracked.
C18_RemovePath ==
    [][\A t \in Candidates :
          (Starts(t) /\ t.kind = "delete" /\ lastFinished' = t.id
               /\ lastDone'.res \notin {"ignored", "threw"})
          => LET normalizedPath == normalizeFilePath(t.path)
                 flag == needReInit \/ FloodDetected(eventCount)
             IN  IF normalizedPath \in filePaths
                 THEN /\ filePaths' = filePaths \ {normalizedPath}
                      /\ (basename(normalizedPath) # GitignoreName
                             => needReInit' = flag)
                      /\ lastDone'.res = "removed"
                      /\ timers' = 1
                 ELSE /\ needReInit'
                      /\ filePaths' = filePaths \ {AddSlash(normalizedPath)}
                      /\ IF AddSlash(normalizedPath) \in filePaths
                         THEN lastDone'.res = "removed" /\ timers' = 1
                         ELSE lastDone'.res = "absent" /\ timers' = timers]_vars

\* a Deleted task found only the directory-suffixed entry, removed it, set the
\* flag and scheduled the notification
C18_Witness ==
    /\ lastDone.kind = "delete"
    /\ lastDone.res = "removed"
    /\ lastDone.prev = "dir"
    /\ filePaths = {}
    /\ needReInit
    /\ timers = 1
    /\ lastFinished = 2

\* no timer fire posts a snapshot while a watcher task is suspended at its stat call
SnapshotOutsideTasks ==
    [][(timers' < timers /\ posted' = posted + 1) => active = {}]_vars

\* C19: a snapshot posted by a timer fire carries the tracked set of a task
\* boundary: none is posted while a Changed task for a tracked file is
\* suspended between its removal of the entry and its re-adding of it.
C19_NoSnapshotInsideChange ==
    [][(timers' < timers /\ posted' = posted + 1)
       => ~\E t \in active :
              t.kind = "change" /\ lastDone.path = t.path /\ lastDone.res = "file"
                 /\ t.path \notin filePaths]_vars

\* C20: the tracked set never holds both the plain form and the
\* directory-suffixed form of one path.
C20_SingleForm ==
    \A e \in filePaths : ~EndsWithSlash(e) => AddSlash(e) \notin filePaths

====
